---- MODULE Spec2Model ----
(***************************************************************************)
(* Media resolution of strapi-plugin-import-export-entries: the file       *)
(* service findOrImportFile (find a stored file by id, by URL or by name,  *)
(* or fetch the URL and upload it), its extension check on its own         *)
(* (SpecAllowed), and the exportData handler of the admin export           *)
(* controller (SpecExport).                                                *)
(*                                                                         *)
(* Strings are sequences of one-character strings, so that the string      *)
(* functions of the source (toLowerCase, trim, replace, split, slugify,    *)
(* startsWith) are computed and not assumed.  The characters that occur    *)
(* are the lower-case letters and digits below, the upper-case letter "P", *)
(* and "/", ".", ":", "-", "_"; no "%", "?" or "#" occurs, so              *)
(* decodeURIComponent changes nothing and the pathname of a URL is all     *)
(* that follows its scheme.                                                *)
(***************************************************************************)
EXTENDS Integers, Sequences, FiniteSets, TLC

\* --------------------------------------------------------------- bounds
\* Number of findOrImportFile calls that can be in flight together.
NumCalls == 2
\* Number of findOrImportFile calls started in one import run.
MaxStarts == 2

\* ------------------------------------------------------------ characters
UpperChars == {"P"}
Digits == {"0", "1", "2", "3", "4", "5", "6", "7", "8", "9"}
LowerChars == {"a", "b", "c", "d", "e", "f", "g", "i", "n", "p", "t", "u", "x", "y"}

\* String.prototype.toLowerCase on one character.
LowerChar(c) == IF c = "P" THEN "p" ELSE c

IsAlnum(c) == c \in LowerChars \cup UpperChars \cup Digits

ToLowerCase(s) == [i \in 1..Len(s) |-> LowerChar(s[i])]

\* s.lastIndexOf(c), 1-based; 0 when c does not occur (-1 in the source).
LastIndexOf(s, c) ==
    IF \E i \in 1..Len(s) : s[i] = c
    THEN CHOOSE i \in 1..Len(s) : s[i] = c /\ \A j \in (i+1)..Len(s) : s[j] # c
    ELSE 0

\* s.indexOf(c), 1-based; 0 when c does not occur.
IndexOf(s, c) ==
    IF \E i \in 1..Len(s) : s[i] = c
    THEN CHOOSE i \in 1..Len(s) : s[i] = c /\ \A j \in 1..(i-1) : s[j] # c
    ELSE 0

\* lodash trim(s, c): drop every leading and trailing c.
Trim(s, c) ==
    LET kept == {i \in 1..Len(s) : s[i] # c}
    IN  IF kept = {} THEN <<>>
        ELSE SubSeq(s, CHOOSE i \in kept : \A j \in kept : i <= j,
                       CHOOSE i \in kept : \A j \in kept : j <= i)

\* s.replace(/c/g, d)
ReplaceAll(s, c, d) == [i \in 1..Len(s) |-> IF s[i] = c THEN d ELSE s[i]]

\* s.startsWith(p)
StartsWith(s, p) == Len(p) <= Len(s) /\ SubSeq(s, 1, Len(p)) = p

\* --------------------------------------------------------------- slugify
\* @sindresorhus/slugify with { separator, lowercase: false }: decamelize
\* (a blank between a lower-case letter or digit and an upper-case letter),
\* every run of characters outside [a-zA-Z0-9] becomes one separator, and
\* leading and trailing separators are removed.
RECURSIVE DecamelizeFrom(_, _)
DecamelizeFrom(s, i) ==
    IF i > Len(s) THEN <<>>
    ELSE (IF i < Len(s) /\ s[i] \in LowerChars \cup Digits /\ s[i+1] \in UpperChars
          THEN <<s[i], " ">>
          ELSE <<s[i]>>) \o DecamelizeFrom(s, i + 1)

Decamelize(s) == DecamelizeFrom(s, 1)

RECURSIVE ReplaceRunsFrom(_, _, _)
ReplaceRunsFrom(s, i, sep) ==
    IF i > Len(s) THEN <<>>
    ELSE (IF IsAlnum(s[i]) THEN <<s[i]>>
          ELSE IF i < Len(s) /\ ~IsAlnum(s[i+1]) THEN <<>>
          ELSE <<sep>>) \o ReplaceRunsFrom(s, i + 1, sep)

ReplaceRuns(s, sep) == ReplaceRunsFrom(s, 1, sep)

\* (each stage is applied to the value of the stage before it)
Slugify(s, sep) ==
    CHOOSE slug \in {Trim(r, sep) : r \in {ReplaceRuns(d, sep) : d \in {Decamelize(v) : v \in {s}}}} :
        TRUE

\* ------------------------------------------------------------------ URLs
\* new URL(decodeURIComponent(rawUrl)): a string with no scheme is not a
\* URL (TypeError); otherwise the pathname is what follows "scheme:".
UrlParses(rawUrl) == IndexOf(rawUrl, ":") > 1

Pathname(rawUrl) == SubSeq(rawUrl, IndexOf(rawUrl, ":") + 1, Len(rawUrl))

\* pathname.split('.').pop(): what follows the last ".", the whole
\* pathname when it has none.
LastDotPart(p) == SubSeq(p, LastIndexOf(p, ".") + 1, Len(p))

\* getHashPart: the pathname with no extension, slugified with "_".
\* pathname.substring(0, pathname.lastIndexOf('.')) is '' when there is no
\* "." (substring(0, -1)) or the "." is the first character.
HashPartOfPath(p) ==
    LET noExt == SubSeq(p, 1, LastIndexOf(p, ".") - 1)
    IN  Slugify(IF noExt # <<>> THEN noExt ELSE p, "_")

getHashPart(rawUrl) == HashPartOfPath(Pathname(rawUrl))

\* trim(pathname.toLowerCase(), '/').replace(/\//g, '-'), each stage
\* applied to the value of the stage before it.
FileNameOfPath(p) ==
    CHOOSE name \in {ReplaceAll(t, "/", "-") : t \in {Trim(l, "/") : l \in {ToLowerCase(v) : v \in {p}}}} :
        TRUE

\* getFileDataFromRawUrl (defined where UrlParses(rawUrl); it throws
\* otherwise).
getFileDataFromRawUrl(rawUrl) ==
    [ name      |-> FileNameOfPath(Pathname(rawUrl)),
      hashPart  |-> getHashPart(rawUrl),
      extension |-> ToLowerCase(LastDotPart(Pathname(rawUrl))) ]

\* path.extname(name): from the last "." on, '' when there is none or it
\* is the first character.
ExtName(s) ==
    IF LastIndexOf(s, ".") > 1 THEN SubSeq(s, LastIndexOf(s, "."), Len(s)) ELSE <<>>

\* path.basename(name, ext) of a name that holds no "/".
Basename(s, ext) ==
    IF ext # <<>> /\ Len(s) > Len(ext) /\ SubSeq(s, Len(s) - Len(ext) + 1, Len(s)) = ext
    THEN SubSeq(s, 1, Len(s) - Len(ext))
    ELSE s

\* ------------------------------------------------------------ file types
ALLOWED_AUDIOS == { <<"m","p","3">>, <<"w","a","v">>, <<"o","g","g">> }
ALLOWED_IMAGES == { <<"p","n","g">>, <<"g","i","f">>, <<"j","p","g">>, <<"j","p","e","g">>,
                    <<"s","v","g">>, <<"b","m","p">>, <<"t","i","f">>, <<"t","i","f","f">> }
ALLOWED_VIDEOS == { <<"m","p","4">>, <<"a","v","i">> }

KnownTypes == {"audios", "files", "images", "videos"}

\* Checkers whose videos entry consults the audio list.
fileTypeCheckersVideosAsAudios(type, ext) ==
    CASE type = "audios" -> ext \in ALLOWED_AUDIOS
      [] type = "files"  -> TRUE
      [] type = "images" -> ext \in ALLOWED_IMAGES
      [] type = "videos" -> ext \in ALLOWED_AUDIOS

\* fileTypeCheckers[type](ext)
fileTypeCheckers(type, ext) ==
    CASE type = "audios" -> ext \in ALLOWED_AUDIOS
      [] type = "files"  -> TRUE
      [] type = "images" -> ext \in ALLOWED_IMAGES
      [] type = "videos" -> ext \in ALLOWED_VIDEOS

\* getFileTypeChecker throws for a type that is no key of fileTypeCheckers;
\* allowedFileTypes.map(getFileTypeChecker) throws as soon as one entry is.
TypesThrow(allowedFileTypes) == ~(allowedFileTypes \subseteq KnownTypes)

\* A check that accepts every extension.
isExtensionAllowedAny(ext, allowedFileTypes) == TRUE

\* isExtensionAllowed (where ~TypesThrow(allowedFileTypes))
isExtensionAllowed(ext, allowedFileTypes) ==
    \E type \in allowedFileTypes : fileTypeCheckers(type, ext)

\* isValidFileUrl: the try block computes the file data and the extension
\* check; any error (URL that does not parse, unknown file type) is logged
\* and answered with isValid: false.
UNDEFINED == <<"u","n","d","e","f","i","n","e","d">>

isValidFileUrlCaught(url, allowedFileTypes) ==
    IF ~UrlParses(url) THEN "TypeError: Invalid URL"
    ELSE IF TypesThrow(allowedFileTypes) THEN "Error: file type not handled"
    ELSE ""

isValidFileUrl(url, allowedFileTypes) ==
    IF isValidFileUrlCaught(url, allowedFileTypes) = ""
    THEN [ isValid  |-> isExtensionAllowed(getFileDataFromRawUrl(url).extension, allowedFileTypes),
           fileName |-> getFileDataFromRawUrl(url).name,
           rawUrl   |-> url,
           hashPart |-> getHashPart(url) ]
    ELSE [ isValid |-> FALSE, fileName |-> <<>>, rawUrl |-> <<>>, hashPart |-> <<>> ]

\* ------------------------------------------------------------ the state
VARIABLES
    store,      \* the media store: the plugin::upload.file entities
    nextId,     \* the id the media store gives to the next uploaded file
    tmpDirs,    \* the strapi-upload-* directories that exist (by number)
    tmpFiles,   \* the temporary files that exist: [dir, name]
    nextDir,    \* the number mkdtemp gives to the next directory
    calls,      \* the findOrImportFile calls, one record per slot
    started,    \* how many calls the run has started
    imported,   \* the URLs some finished call has fetched and uploaded
    probe,      \* one evaluation of isExtensionAllowed: its arguments and result
    ctx         \* the koa context of one exportData request of the admin API

vars == <<store, nextId, tmpDirs, tmpFiles, nextDir, calls, started, imported, probe, ctx>>

Calls == 1..NumCalls

\* ---------------------------------------------------------------- inputs
UrlPic    == <<"x", ":", "/", "y", "/", "p", ".", "p", "n", "g">>
UrlUpper  == <<"x", ":", "/", "P", ".", "p", "n", "g">>
UrlExe    == <<"x", ":", "/", "a", ".", "e", "x", "e">>
UrlNoDot  == <<"x", ":", "/", "b">>
UrlBad    == <<"b", "a", "d">>

Urls == {UrlPic, UrlUpper, UrlExe, UrlNoDot, UrlBad}
Names == { <<"c">> }
Ids == {1, 2}

\* The fileData argument.  kind is what typeof / isObjectSafe tell apart;
\* id 0 and the empty string stand for a field that is absent (both are
\* falsy, as undefined is); for kind "string" the string is in url.
NoArg == [kind |-> "other", id |-> 0, url |-> <<>>, name |-> <<>>,
          alternativeText |-> <<>>, caption |-> <<>>]

FileDatas ==
    {NoArg}
    \cup {[NoArg EXCEPT !.kind = "number", !.id = i] : i \in Ids \cup {0}}
    \cup {[NoArg EXCEPT !.kind = "string", !.url = u] : u \in {UrlPic, UrlBad}}
    \cup {[NoArg EXCEPT !.kind = "object", !.id = i, !.url = u, !.name = n] :
             i \in Ids \cup {0}, u \in {UrlPic, UrlExe, UrlBad, <<>>}, n \in Names \cup {<<>>}}
    \cup {[NoArg EXCEPT !.kind = "object", !.url = u] : u \in {UrlUpper, UrlNoDot}}
    \cup {[NoArg EXCEPT !.kind = "object", !.url = u, !.name = n,
                        !.alternativeText = t, !.caption = d] :
             u \in {UrlPic}, n \in Names \cup {<<>>}, t \in {<<>>, <<"t">>}, d \in {<<>>, <<"d">>}}

\* The references a concurrent run resolves.
ConcurrentFileDatas ==
    {[NoArg EXCEPT !.kind = "object", !.id = 1],
     [NoArg EXCEPT !.kind = "object", !.name = <<"c">>],
     [NoArg EXCEPT !.kind = "object", !.url = UrlPic],
     [NoArg EXCEPT !.kind = "object", !.url = UrlNoDot]}

AllowedFileTypes == { {"images"}, {"files"}, {"audios", "videos"}, {}, {"images", "pdfs"} }

\* What the request callback is called with.
StatusCodes == {200, 299, 199, 300, 404}

\* The media store before the run: empty, one file named c, or two files
\* that share the name c.
StoredFile(id, name, hash, ext, src) ==
    [id |-> id, name |-> name, hash |-> hash, ext |-> ext, src |-> src]

OldPng == StoredFile(1, <<"c">>, <<"c", "_", "0">>, <<".", "p", "n", "g">>, <<>>)
OldExe == StoredFile(1, <<"c">>, <<"c", "_", "0">>, <<".", "e", "x", "e">>, <<>>)
OldPng2 == StoredFile(2, <<"c">>, <<"c", "_", "1">>, <<".", "p", "n", "g">>, <<>>)

InitialStores == { {}, {OldPng}, {OldExe}, {OldExe, OldPng2} }

\* ----------------------------------------------------------------- calls
IdleCall ==
    [ pc      |-> "idle",
      arg     |-> NoArg,
      allowed |-> {},
      got     |-> [id |-> {}, url |-> {}, name |-> {}],  \* what each step yielded
      trace   |-> <<>>,      \* the operations the call has performed, in order
      hash    |-> <<>>,      \* the hash filter handed to findFile
      check   |-> isValidFileUrl(<<>>, {}),
      caught  |-> "",        \* the error isValidFileUrl caught and logged
      path    |-> [dir |-> 0, name |-> <<>>],  \* file.path (dir 0: undefined)
      fileInfo |-> [name |-> <<>>, alternativeText |-> <<>>, caption |-> <<>>],
      up      |-> {},        \* what the settled upload promise holds
      result  |-> {},        \* the returned file ({} is null)
      err     |-> "",        \* the error the call threw
      sawImported |-> FALSE, \* the url had been imported when the call began
      serial  |-> 0,         \* the number of the call in the run
      overlaps |-> {}        \* the calls in flight when the call began
    ]

\* isExtensionAllowed not yet evaluated.
IdleProbe == [ext |-> <<>>, types |-> {}, done |-> FALSE, allowed |-> FALSE]

\* No exportData request.
IdleCtx ==
    [ pc      |-> "idle",
      body    |-> [slug |-> "", exportFormat |-> "", hasDeepness |-> FALSE, deepness |-> 0],
      ability |-> {},        \* ctx.state.userAbility: the models the user can read
      trace   |-> <<>>,      \* what the handler has done, in order
      args    |-> [slug |-> "", exportFormat |-> "", deepness |-> 0],  \* given to the service
      status  |-> 0,         \* the response status the handler has set (0: none)
      data    |-> ""         \* ctx.body.data ("" while ctx.body is not set)
    ]

Init ==
    /\ probe = IdleProbe
    /\ ctx = IdleCtx
    /\ store \in InitialStores
    /\ nextId = 3
    /\ tmpDirs = {}
    /\ tmpFiles = {}
    /\ nextDir = 1
    /\ calls = [c \in Calls |-> IdleCall]
    /\ started = 0
    /\ imported = {}

InFlight(c) == calls[c].pc \notin {"idle", "returned", "thrown"}

\* importByUrl destructures { url, ... } from its first argument: of a
\* string (findOrImportFile line 24) that is undefined, and
\* decodeURIComponent(undefined) is the string "undefined".
DestructuredUrl(arg) == IF arg.kind = "string" THEN UNDEFINED ELSE arg.url

\* An object branch that runs every step whose field is set.
AfterStepUnguarded(cr, step, f) ==
    LET a == cr.arg
        r == [cr EXCEPT !.got[step] = f]
    IN  IF a.kind = "object" /\ step = "id" /\ a.url # <<>>
        THEN [r EXCEPT !.pc = "importByUrl"]
        ELSE IF a.kind = "object" /\ step \in {"id", "url"} /\ a.name # <<>>
        THEN [r EXCEPT !.pc = "importByName"]
        ELSE [r EXCEPT !.pc = "returned", !.result = f]

\* A call that fetches the reference when its lookups have found nothing,
\* whether or not it has a url.
AfterStepFetchMissing(cr, step, f) ==
    LET a == cr.arg
        r == [cr EXCEPT !.got[step] = f]
    IN  IF a.kind = "object" /\ step = "id" /\ f = {} /\ a.url # <<>>
        THEN [r EXCEPT !.pc = "importByUrl"]
        ELSE IF a.kind = "object" /\ step \in {"id", "url"} /\ f = {} /\ a.name # <<>>
        THEN [r EXCEPT !.pc = "importByName"]
        ELSE IF f = {} /\ step \in {"id", "name"}
        THEN [r EXCEPT !.pc = "request", !.trace = r.trace \o <<"request">>]
        ELSE [r EXCEPT !.pc = "returned", !.result = f]

\* findOrImportFile, lines 20-38: where the call goes once a step has
\* yielded f ({} for null): the next step of the object branch whose field
\* is set, while no file was found; the return otherwise.
AfterStep(cr, step, f) ==
    LET a == cr.arg
        r == [cr EXCEPT !.got[step] = f]
    IN  IF a.kind = "object" /\ step = "id" /\ f = {} /\ a.url # <<>>
        THEN [r EXCEPT !.pc = "importByUrl"]
        ELSE IF a.kind = "object" /\ step \in {"id", "url"} /\ f = {} /\ a.name # <<>>
        THEN [r EXCEPT !.pc = "importByName"]
        ELSE [r EXCEPT !.pc = "returned", !.result = f]

Throw(cr, e) == [cr EXCEPT !.pc = "thrown", !.err = e]

\* findOrImportFile is called: the dispatch on the type of fileData up to
\* the first function it awaits.
FirstStep(arg) ==
    CASE arg.kind = "number" -> "importById"
      [] arg.kind = "string" -> "importByUrl"
      [] arg.kind = "object" /\ arg.id # 0 -> "importById"
      [] arg.kind = "object" /\ arg.id = 0 /\ arg.url # <<>> -> "importByUrl"
      [] arg.kind = "object" /\ arg.id = 0 /\ arg.url = <<>> /\ arg.name # <<>> -> "importByName"
      [] OTHER -> "returned"

Begin(c, arg, allowed) ==
    /\ calls[c].pc = "idle"
    /\ started < MaxStarts
    /\ started' = started + 1
    /\ calls' = [calls EXCEPT ![c] =
          [IdleCall EXCEPT !.pc = FirstStep(arg), !.arg = arg, !.allowed = allowed,
                           !.sawImported = (arg.kind = "object" /\ arg.url \in imported),
                           !.serial = started + 1,
                           !.overlaps = {calls[d].serial : d \in {e \in Calls : InFlight(e)}}]]
    /\ UNCHANGED <<store, nextId, tmpDirs, tmpFiles, nextDir, imported, probe, ctx>>

\* The import run resolves one media reference after the other.
Start(c) ==
    /\ c = 1
    /\ \A d \in Calls : ~InFlight(d)
    /\ \E arg \in FileDatas, allowed \in AllowedFileTypes : Begin(c, arg, allowed)

\* A run that resolves references concurrently.
StartConcurrent(c) ==
    /\ \A d \in 1..(c-1) : calls[d].pc # "idle"
    /\ \E arg \in ConcurrentFileDatas, allowed \in {{"images"}, {"files"}} :
          Begin(c, arg, allowed)

\* The caller has taken the result; the slot is free for the next call.
Finish(c) ==
    /\ calls[c].pc \in {"returned", "thrown"}
    /\ calls' = [calls EXCEPT ![c] = IdleCall]
    /\ UNCHANGED <<store, nextId, tmpDirs, tmpFiles, nextDir, started, imported, probe, ctx>>

\* ------------------------------------------------------------- findFile
Did(cr, events) == [cr EXCEPT !.trace = @ \o events]

Done(cr, event) == \E i \in 1..Len(cr.trace) : cr.trace[i] = event

\* findFile({ id }): findOne by id; an id that is falsy reaches no branch.
FilesById(id) == IF id # 0 THEN {f \in store : f.id = id} ELSE {}

\* findFile({ hash }): the files whose hash starts with `${hash}_`.
FilesByHash(hash) ==
    IF hash # <<>> THEN {f \in store : StartsWith(f.hash, hash \o <<"_">>)} ELSE {}

\* findFile({ name }): the files of that name.
FilesByName(name) == IF name # <<>> THEN {f \in store : f.name = name} ELSE {}

\* [file] = await findMany(..., limit: 1): one of the matching files (the
\* query states no order), null when there is none.
FirstOf(files) == IF files = {} THEN {{}} ELSE {{f} : f \in files}

\* importById / importByName after the lookup: a file whose extension
\* (ext without its dot) is not allowed counts as not found.
ExtensionOf(file) == SubSeq(file.ext, 2, Len(file.ext))

\* A lookup that skips the extension check.
KeepAll(found, allowedFileTypes) == found

KeepIfAllowed(found, allowedFileTypes) ==
    {f \in found : isExtensionAllowed(ExtensionOf(f), allowedFileTypes)}

\* The hash filter importByUrl hands to findFile (line 67).
HashFilter(checkResult) == checkResult.fileName

\* fileInfo of the upload: the given value, else the file's name.
OrElse(value, default) == IF value # <<>> THEN value ELSE default

\* A fileInfo whose alternativeText and caption fall back to the reference's
\* name instead of the file's.
FileInfoFromName(arg, fileName) ==
    [ name            |-> OrElse(arg.name, fileName),
      alternativeText |-> OrElse(arg.alternativeText, arg.name),
      caption         |-> OrElse(arg.caption, arg.name) ]

\* importFile, lines 119-125: data.fileInfo of the upload
FileInfo(arg, fileName) ==
    [ name            |-> OrElse(arg.name, fileName),
      alternativeText |-> OrElse(arg.alternativeText, fileName),
      caption         |-> OrElse(arg.caption, fileName) ]

\* The entity the media store creates for an upload: its name is
\* fileInfo.name, its ext the extension of the uploaded file's name, its
\* hash the slug of the name without that extension, "_" and a suffix of
\* the store's choice.  src records the URL it was fetched from.
Suffix(id) == <<"0", "1", "2", "3", "4", "5", "6", "7", "8", "9">>[(id % 10) + 1]

UploadedEntity(id, fileName, fileInfo, src) ==
    StoredFile(id, fileInfo.name,
               Slugify(Basename(fileInfo.name, ExtName(fileName)), "_") \o <<"_", Suffix(id)>>,
               ExtName(fileName), src)

\* --------------------------------------------------------------- actions
Frame == UNCHANGED <<store, nextId, tmpDirs, tmpFiles, nextDir, started, imported, probe, ctx>>

\* importById: await findFile({ id }), then the extension check.
ImportById(c) ==
    LET cr == Did(calls[c], <<"findFile:id">>)
        found == FilesById(cr.arg.id)
    IN  /\ calls[c].pc = "importById"
        /\ \/ /\ cr.arg.id # 0                       \* the store query rejects
              /\ calls' = [calls EXCEPT ![c] = Throw(cr, "StoreError")]
           \/ /\ found # {} /\ TypesThrow(cr.allowed)
              /\ calls' = [calls EXCEPT ![c] = Throw(cr, "TypeNotHandled")]
           \/ /\ ~(found # {} /\ TypesThrow(cr.allowed))
              /\ calls' = [calls EXCEPT ![c] =
                    AfterStep(cr, "id", KeepIfAllowed(found, cr.allowed))]
        /\ Frame

\* importByName: await findFile({ name }), then the extension check.
ImportByName(c) ==
    LET cr == Did(calls[c], <<"findFile:name">>)
    IN  /\ calls[c].pc = "importByName"
        /\ \/ calls' = [calls EXCEPT ![c] = Throw(cr, "StoreError")]
           \/ \E found \in FirstOf(FilesByName(cr.arg.name)) :
                 IF found # {} /\ TypesThrow(cr.allowed)
                 THEN calls' = [calls EXCEPT ![c] = Throw(cr, "TypeNotHandled")]
                 ELSE calls' = [calls EXCEPT ![c] =
                         AfterStep(cr, "name", KeepIfAllowed(found, cr.allowed))]
        /\ Frame

\* importByUrl, lines 62-67: the URL check; null when it is not valid,
\* else the lookup by hash is awaited.
ImportByUrl(c) ==
    /\ calls[c].pc = "importByUrl"
    /\ \E checkResult \in {isValidFileUrl(DestructuredUrl(calls[c].arg), calls[c].allowed)} :
          LET cr == [Did(calls[c], <<"isValidFileUrl">>) EXCEPT
                        !.check = checkResult,
                        !.caught = isValidFileUrlCaught(DestructuredUrl(calls[c].arg),
                                                        calls[c].allowed)]
          IN  IF ~checkResult.isValid
              THEN calls' = [calls EXCEPT ![c] = AfterStep(cr, "url", {})]
              ELSE calls' = [calls EXCEPT ![c] =
                      [cr EXCEPT !.pc = "findFile", !.hash = HashFilter(checkResult)]]
    /\ Frame

\* importByUrl, lines 67-70: the lookup by hash settles; a file found is
\* the result, else importFile calls fetchFile, which issues the request.
FindFileByHash(c) ==
    LET cr == Did(calls[c], <<"findFile:hash">>)
    IN  /\ calls[c].pc = "findFile"
        /\ \/ /\ cr.hash # <<>>
              /\ calls' = [calls EXCEPT ![c] = Throw(cr, "StoreError")]
           \/ \E found \in FirstOf(FilesByHash(cr.hash)) :
                 IF found # {}
                 THEN calls' = [calls EXCEPT ![c] = AfterStep(cr, "url", found)]
                 ELSE calls' = [calls EXCEPT ![c] =
                         [Did(cr, <<"request">>) EXCEPT !.pc = "request"]]
        /\ Frame

\* An error thrown inside the async request callback rejects the promise of
\* the callback, which nobody holds: the promise of fetchFile is neither
\* resolved nor rejected, and importFile stays at its await.
Suspend(cr, e) == [cr EXCEPT !.pc = "suspended", !.err = e]

\* fetchFile, lines 142-145: the request fails; fetchFile rejects, and
\* importFile logs, deletes file?.path (file is undefined) and rethrows.
RequestError(c) ==
    /\ calls[c].pc = "request"
    /\ calls' = [calls EXCEPT ![c] =
          Throw(Did(calls[c], <<"callback:error">>), "RequestError")]
    /\ Frame

\* fetchFile, lines 147-155: a response arrives.
Response(c, statusCode, hasContentType) ==
    LET cr == calls[c]
    IN  /\ cr.pc = "request"
        /\ calls' = [calls EXCEPT ![c] =
              IF statusCode < 200 \/ 300 <= statusCode
              THEN Suspend(Did(cr, <<"callback:status">>), "Error: failed with status code")
              ELSE IF ~hasContentType
              THEN Suspend(Did(cr, <<"callback:noContentType">>), "TypeError: undefined.split")
              ELSE [Did(cr, <<"callback:ok", "mkdtemp">>) EXCEPT !.pc = "writeFile"]]
        /\ Frame

\* writeFile, then fetchFile line 157 and importFile lines 108-128: mkdtemp
\* settles; the file is written, fetchFile resolves and importFile calls
\* upload.  When mkdtemp or writeFileSync fails the error is thrown inside
\* the request callback; a failed writeFileSync may have created the file.
WriteFile(c) ==
    LET cr == calls[c]
        name == getFileDataFromRawUrl(cr.check.rawUrl).name
        filePath == [dir |-> nextDir, name |-> name]
    IN  /\ cr.pc = "writeFile"
        /\ \/ /\ calls' = [calls EXCEPT ![c] = Suspend(Did(cr, <<"mkdtemp:failed">>), "mkdtemp")]
              /\ UNCHANGED <<tmpDirs, tmpFiles, nextDir>>
           \/ /\ tmpDirs' = tmpDirs \cup {nextDir}
              /\ nextDir' = nextDir + 1
              /\ \/ /\ tmpFiles' = tmpFiles \cup {filePath}
                    /\ calls' = [calls EXCEPT ![c] =
                          [Did(cr, <<"writeFileSync", "upload">>) EXCEPT
                              !.pc = "upload", !.path = filePath,
                              !.fileInfo = FileInfo(cr.arg, name)]]
                 \/ /\ tmpFiles' \in {tmpFiles, tmpFiles \cup {filePath}}
                    /\ calls' = [calls EXCEPT ![c] =
                          Suspend(Did(cr, <<"writeFileSync:failed">>), "writeFileSync")]
        /\ UNCHANGED <<store, nextId, started, imported, probe, ctx>>

\* The media store performs the upload: it stores a new file, or fails.
Upload(c) ==
    LET cr == calls[c]
        entity == UploadedEntity(nextId, cr.path.name, cr.fileInfo, cr.check.rawUrl)
    IN  /\ cr.pc = "upload"
        /\ \/ /\ store' = store \cup {entity}
              /\ nextId' = nextId + 1
              /\ calls' = [calls EXCEPT ![c] = [cr EXCEPT !.pc = "uploaded", !.up = {entity}]]
           \/ /\ calls' = [calls EXCEPT ![c] =
                    [Did(cr, <<"upload:failed">>) EXCEPT !.pc = "uploaded", !.err = "UploadError"]]
              /\ UNCHANGED <<store, nextId>>
        /\ UNCHANGED <<tmpDirs, tmpFiles, nextDir, started, imported, probe, ctx>>

\* deleteFileIfExists
deleteFileIfExists(files, filePath) ==
    IF filePath.dir # 0 /\ filePath \in files THEN files \ {filePath} ELSE files

\* importFile, lines 130-136: the upload has settled; the uploaded file is
\* returned or the error logged and rethrown, and the finally block deletes
\* file.path.
ImportFileSettles(c) ==
    LET cr == Did(calls[c], <<"deleteFileIfExists">>)
    IN  /\ cr.pc = "uploaded"
        /\ tmpFiles' = deleteFileIfExists(tmpFiles, cr.path)
        /\ IF cr.err = ""
           THEN /\ calls' = [calls EXCEPT ![c] = AfterStep(cr, "url", cr.up)]
                /\ imported' = imported \cup {cr.check.rawUrl}
           ELSE /\ calls' = [calls EXCEPT ![c] = Throw(cr, cr.err)]
                /\ UNCHANGED imported
        /\ UNCHANGED <<store, nextId, tmpDirs, nextDir, started, probe, ctx>>

\* ------------------------------------------------------------------ Next
Step(c) ==
    \/ ImportById(c)
    \/ ImportByUrl(c)
    \/ FindFileByHash(c)
    \/ RequestError(c)
    \/ \E statusCode \in StatusCodes, hasContentType \in BOOLEAN :
          Response(c, statusCode, hasContentType)
    \/ WriteFile(c)
    \/ Upload(c)
    \/ ImportFileSettles(c)
    \/ ImportByName(c)
    \/ Finish(c)

Next == \E c \in Calls : Start(c) \/ Step(c)

Spec == Init /\ [][Next]_vars

NextConcurrent == \E c \in Calls : StartConcurrent(c) \/ Step(c)

SpecConcurrent == Init /\ [][NextConcurrent]_vars

\* ------------------------------------------- isExtensionAllowed on its own
\* The extensions and lists of types isExtensionAllowed is evaluated on:
\* every listed extension, and some that are on no list.
Extensions ==
    ALLOWED_AUDIOS \cup ALLOWED_IMAGES \cup ALLOWED_VIDEOS \cup
    { <<>>, <<"e","x","e">>, <<"P","N","G">>, <<"p","n">>, <<"m","p">>, <<"/","b">> }

TypeLists == SUBSET KnownTypes

InitAllowed ==
    /\ probe \in [ext : Extensions, types : TypeLists, done : {FALSE}, allowed : {FALSE}]
    /\ ctx = IdleCtx
    /\ store = {}
    /\ nextId = 3
    /\ tmpDirs = {}
    /\ tmpFiles = {}
    /\ nextDir = 1
    /\ calls = [c \in Calls |-> IdleCall]
    /\ started = 0
    /\ imported = {}

\* isExtensionAllowed(ext, allowedFileTypes) is evaluated.
CheckExtension ==
    /\ ~probe.done
    /\ probe' = [probe EXCEPT !.done = TRUE,
                              !.allowed = isExtensionAllowed(probe.ext, probe.types)]
    /\ UNCHANGED <<store, nextId, tmpDirs, tmpFiles, nextDir, calls, started, imported, ctx>>

NextAllowed == CheckExtension

SpecAllowed == InitAllowed /\ [][NextAllowed]_vars

\* ------------------------------------------- the export controller
\* exportData of the admin export controller handles one request.
Slugs == {"api::a.a", "api::b.b"}
ExportFormats == {"json", "csv"}
Deepnesses == {1, 2}
DefaultDeepness == 5

\* ctx.request.body of the requests: with and without a deepness.
RequestBodies ==
    [slug : Slugs, exportFormat : ExportFormats, hasDeepness : {TRUE}, deepness : Deepnesses]
    \cup [slug : Slugs, exportFormat : ExportFormats, hasDeepness : {FALSE}, deepness : {0}]

\* ctx.state.userAbility, as the set of models it lets the user read.
Abilities == SUBSET Slugs

\* What the export service resolves with.
ExportedData == {"data"}

InitExport ==
    /\ ctx = IdleCtx
    /\ probe = IdleProbe
    /\ store = {}
    /\ nextId = 3
    /\ tmpDirs = {}
    /\ tmpFiles = {}
    /\ nextDir = 1
    /\ calls = [c \in Calls |-> IdleCall]
    /\ started = 0
    /\ imported = {}

ExportFrame ==
    UNCHANGED <<store, nextId, tmpDirs, tmpFiles, nextDir, calls, started, imported, probe>>

CtxDid(c, events) == [c EXCEPT !.trace = c.trace \o events]

\* A request reaches the handler.
Request(body, ability) ==
    /\ ctx.pc = "idle"
    /\ ctx' = [ctx EXCEPT !.pc = "exportData", !.body = body, !.ability = ability]
    /\ ExportFrame

\* hasPermissions: the permission checker created for the user's ability and
\* the model of the body's slug answers can.read().
hasPermissions(c) == c.body.slug \in c.ability

\* A handler that answers forbidden and goes on to call the service.
AfterCheckNoReturn(c, ok) ==
    [CtxDid(c, IF ok THEN <<"can.read:true", "exportData">>
                     ELSE <<"can.read:false", "forbidden", "exportData">>) EXCEPT
        !.pc = "export",
        !.status = IF ok THEN c.status ELSE 403,
        !.args = [slug         |-> c.body.slug,
                  exportFormat |-> c.body.exportFormat,
                  deepness     |-> IF c.body.hasDeepness THEN c.body.deepness
                                                         ELSE DefaultDeepness]]

\* exportData, lines 7-15: forbidden when hasPermissions says no; otherwise
\* the body is destructured (deepness defaults to 5) and the export service
\* is called.
AfterCheck(c, ok) ==
    IF ~ok
    THEN [CtxDid(c, <<"can.read:false", "forbidden">>) EXCEPT
             !.pc = "forbidden", !.status = 403]
    ELSE [CtxDid(c, <<"can.read:true", "exportData">>) EXCEPT
             !.pc = "export",
             !.args = [slug         |-> c.body.slug,
                       exportFormat |-> c.body.exportFormat,
                       deepness     |-> IF c.body.hasDeepness THEN c.body.deepness
                                                              ELSE DefaultDeepness]]

ExportData ==
    /\ ctx.pc = "exportData"
    /\ ctx' = AfterCheck(ctx, hasPermissions(ctx))
    /\ ExportFrame

\* The export service resolves: ctx.body = { data }.
ExportResolves(data) ==
    /\ ctx.pc = "export"
    /\ ctx' = [CtxDid(ctx, <<"ctx.body">>) EXCEPT !.pc = "done", !.data = data]
    /\ ExportFrame

\* The export service rejects: the await throws and ctx.body stays unset.
ExportRejects ==
    /\ ctx.pc = "export"
    /\ ctx' = [CtxDid(ctx, <<"exportData:rejected">>) EXCEPT !.pc = "failed"]
    /\ ExportFrame

NextExport ==
    \/ \E body \in RequestBodies, ability \in Abilities : Request(body, ability)
    \/ ExportData
    \/ \E data \in ExportedData : ExportResolves(data)
    \/ ExportRejects

SpecExport == InitExport /\ [][NextExport]_vars

\* ================================================================ claims
\* The url of the call is one importByUrl accepts.
UrlAllowed(cr) ==
    cr.arg.kind = "object" /\ cr.arg.url # <<>> /\ isValidFileUrl(cr.arg.url, cr.allowed).isValid

FilesFrom(url) == {f \in store : f.src = url}

\* C1: a findOrImportFile({url}) that begins after a call has fetched and
\* uploaded the same allowed url issues no request and no upload; it
\* returns after the lookup by hash, and the store then holds exactly one
\* file fetched from that url.
C1_SequentialDedup ==
    \A c \in Calls :
        LET cr == calls[c]
        IN  (cr.sawImported /\ cr.arg.id = 0 /\ UrlAllowed(cr)) =>
               /\ ~Done(cr, "request")
               /\ ~Done(cr, "upload")
               /\ cr.pc = "returned" =>
                     Done(cr, "findFile:hash") /\ Cardinality(FilesFrom(cr.arg.url)) = 1

\* C2: of two calls for the same allowed url that are in flight together,
\* at most one calls upload.
C2_ConcurrentDedup ==
    \A c, d \in Calls :
        LET cr == calls[c]
            dr == calls[d]
        IN  (c # d /\ dr.serial \in cr.overlaps /\ UrlAllowed(cr) /\ UrlAllowed(dr)
                   /\ cr.arg.url = dr.arg.url) =>
               ~(Done(cr, "upload") /\ Done(dr, "upload"))

\* C3: in a state where no media resolution can take a further step (each
\* call has returned, thrown, or waits on a promise nothing settles), no
\* temporary file exists.
C3_TempFileCleanup ==
    (\A c \in Calls : calls[c].pc \in {"idle", "returned", "thrown", "suspended"}) =>
        tmpFiles = {}

\* C4: a call whose request failed, or was answered with a status outside
\* 200..299, has thrown an error and has not called upload.
C4_FetchFailureThrows ==
    \A c \in Calls :
        LET cr == calls[c]
        IN  (Done(cr, "callback:error") \/ Done(cr, "callback:status")) =>
               cr.pc = "thrown" /\ cr.err # "" /\ ~Done(cr, "upload")

\* C5: every call that has issued its request eventually returns or
\* throws, whatever the request callback receives.  The event loop runs
\* every continuation that is ready: weak fairness of each call's steps.
SpecFair == Spec /\ \A c \in Calls : WF_vars(Step(c))

C5_EveryFetchSettles ==
    \A c \in Calls :
        (calls[c].pc = "request") ~> (calls[c].pc \in {"returned", "thrown"})

\* C6: a call whose url parses and has an extension that no type of
\* allowedFileTypes accepts gets null from the URL step, and performs no
\* lookup by hash, no request, no temporary directory or file, no upload.
ExtensionRefused(cr) ==
    /\ cr.arg.kind = "object"
    /\ UrlParses(cr.arg.url)
    /\ \A type \in cr.allowed \cap KnownTypes :
          ~fileTypeCheckers(type, ToLowerCase(LastDotPart(Pathname(cr.arg.url))))

UrlStepEvents ==
    {"findFile:hash", "request", "callback:error", "callback:status",
     "callback:noContentType", "callback:ok", "mkdtemp", "mkdtemp:failed",
     "writeFileSync", "writeFileSync:failed", "upload", "upload:failed",
     "deleteFileIfExists"}

C6_DisallowedNeverFetched ==
    \A c \in Calls :
        LET cr == calls[c]
        IN  ExtensionRefused(cr) =>
               /\ cr.got.url = {}
               /\ \A e \in UrlStepEvents : ~Done(cr, e)
               /\ cr.pc \notin {"findFile", "request", "writeFile", "upload", "uploaded"}
               /\ cr.path.dir = 0

C6_Witness ==
    \E c \in Calls :
        /\ calls[c].pc = "returned"
        /\ calls[c].arg.url = UrlExe /\ calls[c].allowed = {"images"}
        /\ Done(calls[c], "isValidFileUrl")
        /\ calls[c].result = {}

\* C7: the hash filter of the lookup importByUrl makes is the hashPart of
\* the url (the slug of its pathname without the extension).
C7_LookupKeyIsHashPart ==
    \A c \in Calls :
        Done(calls[c], "findFile:hash") => calls[c].hash = getHashPart(calls[c].arg.url)

\* C8: a descriptor is resolved by id, then by url, then by name; a step
\* runs only if its field is set and every earlier step yielded no file;
\* the result is what the first yielding step yielded, null when none did;
\* after an id lookup that yields a file nothing else is done.
StepRank(e) ==
    CASE e = "findFile:id" -> 1
      [] e = "findFile:name" -> 3
      [] OTHER -> 2

C8_ResolutionOrder ==
    \A c \in Calls :
        LET cr == calls[c]
            a == cr.arg
        IN  a.kind = "object" =>
               /\ \A i, j \in 1..Len(cr.trace) :
                     i < j => StepRank(cr.trace[i]) <= StepRank(cr.trace[j])
               /\ Done(cr, "findFile:id") => a.id # 0
               /\ Done(cr, "isValidFileUrl") => a.url # <<>> /\ cr.got.id = {}
               /\ Done(cr, "findFile:name") =>
                     a.name # <<>> /\ cr.got.id = {} /\ cr.got.url = {}
               /\ cr.got.id # {} => cr.trace = <<"findFile:id">>
               /\ cr.pc = "returned" =>
                     /\ cr.result = (IF cr.got.id # {} THEN cr.got.id
                                     ELSE IF cr.got.url # {} THEN cr.got.url
                                     ELSE cr.got.name)
                     /\ cr.result = {} =>
                           /\ a.id # 0 => Done(cr, "findFile:id")
                           /\ a.url # <<>> => Done(cr, "isValidFileUrl")
                           /\ a.name # <<>> => Done(cr, "findFile:name")

C8_Witness ==
    \E c \in Calls :
        /\ calls[c].pc = "returned"
        /\ calls[c].trace = <<"findFile:id", "isValidFileUrl", "findFile:name">>
        /\ calls[c].result # {}

\* C9 (as claimed): with known file types and a lookup that answers, a
\* NumericId or a name-only reference yields a stored file exactly when a
\* file of that id / name with an accepted extension exists, null
\* otherwise, and never an error.
Accepted(f, allowedFileTypes) ==
    \E type \in allowedFileTypes : fileTypeCheckers(type, SubSeq(f.ext, 2, Len(f.ext)))

ByIdOrNameOnly(cr) ==
    /\ cr.pc \in {"returned", "thrown"}
    /\ cr.allowed \subseteq KnownTypes
    /\ cr.err # "StoreError"
    /\ \/ cr.arg.kind = "number"
       \/ cr.arg.kind = "object" /\ cr.arg.id = 0 /\ cr.arg.url = <<>> /\ cr.arg.name # <<>>

C9_FoundIffSomeAllowed ==
    \A c \in Calls :
        LET cr == calls[c]
            wanted == IF cr.arg.kind = "number"
                      THEN {f \in store : f.id = cr.arg.id /\ Accepted(f, cr.allowed)}
                      ELSE {f \in store : f.name = cr.arg.name /\ Accepted(f, cr.allowed)}
        IN  ByIdOrNameOnly(cr) =>
               /\ cr.pc = "returned"
               /\ cr.result \subseteq wanted
               /\ cr.result = {} <=> wanted = {}

\* C9 (amended): the result is the file the lookup yields (the file of
\* that id; one of the files of that name) if its extension is accepted,
\* and null if it is not or the lookup yields none; never an error.
C9_YieldedFileIfAllowed ==
    \A c \in Calls :
        LET cr == calls[c]
            matches == IF cr.arg.kind = "number"
                       THEN {f \in store : f.id = cr.arg.id}
                       ELSE {f \in store : f.name = cr.arg.name}
        IN  ByIdOrNameOnly(cr) =>
               /\ cr.pc = "returned"
               /\ IF matches = {} THEN cr.result = {}
                  ELSE \E f \in matches :
                          cr.result = (IF Accepted(f, cr.allowed) THEN {f} ELSE {})
               /\ cr.arg.kind = "number" => Cardinality(matches) <= 1

C9_Witness ==
    \E c \in Calls :
        /\ ByIdOrNameOnly(calls[c])
        /\ calls[c].result = {}
        /\ \E f \in store : f.name = calls[c].arg.name /\ ~Accepted(f, calls[c].allowed)

\* C10: a call in which a step raised an error fails with that error: it
\* does not go on to return a file or null.
C10_NoSwallowedErrors ==
    \A c \in Calls :
        calls[c].caught # "" => calls[c].pc = "thrown" /\ calls[c].err = calls[c].caught

\* The extensions the claim lists for each closed type.
ListedAudios == { <<"m","p","3">>, <<"w","a","v">>, <<"o","g","g">> }
ListedImages == { <<"p","n","g">>, <<"g","i","f">>, <<"j","p","g">>, <<"j","p","e","g">>,
                  <<"s","v","g">>, <<"b","m","p">>, <<"t","i","f">>, <<"t","i","f","f">> }
ListedVideos == { <<"m","p","4">>, <<"a","v","i">> }

\* C11: for every extension and every list of types drawn from audios,
\* images, videos and files, isExtensionAllowed answers true exactly when
\* the list contains files, or contains audios and the extension is one of
\* mp3/wav/ogg, or contains images and the extension is one of
\* png/gif/jpg/jpeg/svg/bmp/tif/tiff, or contains videos and the extension
\* is one of mp4/avi; the empty list accepts nothing, files accepts all.
C11_AllowListSemantics ==
    probe.done =>
        /\ probe.allowed <=>
              \/ "files" \in probe.types
              \/ "audios" \in probe.types /\ probe.ext \in ListedAudios
              \/ "images" \in probe.types /\ probe.ext \in ListedImages
              \/ "videos" \in probe.types /\ probe.ext \in ListedVideos
        /\ probe.types = {} => ~probe.allowed
        /\ "files" \in probe.types => probe.allowed

\* An extension on the video list only has been accepted by a list with
\* videos and without files, and refused by a list of audios and images.
C11_Witness ==
    /\ probe.done
    /\ probe.ext = <<"m","p","4">>
    /\ \/ probe.types = {"videos", "images"} /\ probe.allowed
       \/ probe.types = {"audios", "images"} /\ ~probe.allowed

\* How often, and where first, an event is in the handler's trace.
CountOf(trace, event) == Cardinality({i \in DOMAIN trace : trace[i] = event})

FirstAt(trace, event) ==
    IF \E i \in DOMAIN trace : trace[i] = event
    THEN CHOOSE i \in DOMAIN trace : trace[i] = event /\ \A j \in 1..(i - 1) : trace[j] # event
    ELSE 0

\* C12: in exportData the read-permission check for the requested slug is
\* evaluated exactly once and before the export service is invoked; when it
\* is false the handler answers forbidden, the export service is never
\* called and ctx.body is never set; the export service is called only when
\* the check returned true (the user's ability lets them read the slug).
C12_ExportGate ==
    LET t == ctx.trace
        checks == CountOf(t, "can.read:true") + CountOf(t, "can.read:false")
        calledService == CountOf(t, "exportData") > 0
    IN  /\ checks <= 1
        /\ ctx.pc \in {"export", "forbidden", "done", "failed"} => checks = 1
        /\ calledService =>
              /\ FirstAt(t, "can.read:true") # 0
              /\ FirstAt(t, "can.read:true") < FirstAt(t, "exportData")
              /\ ctx.body.slug \in ctx.ability
              /\ ctx.args.slug = ctx.body.slug
        /\ ctx.pc # "idle" /\ ctx.body.slug \notin ctx.ability =>
              /\ ~calledService
              /\ ctx.data = ""
              /\ ctx.pc \in {"exportData", "forbidden"}
        /\ CountOf(t, "can.read:false") > 0 =>
              /\ ctx.pc = "forbidden" /\ ctx.status = 403
              /\ ~calledService
              /\ ctx.data = ""
        /\ ctx.data # "" => calledService

\* A request for a model the user cannot read has been answered forbidden.
C12_Witness ==
    /\ ctx.pc = "forbidden"
    /\ ctx.body.slug \notin ctx.ability
    /\ ctx.ability # {}

\* The file name of each url that can be fetched: its path in lower case,
\* without the outer slashes, the inner slashes replaced by "-".
DerivedName(url) ==
    CASE url = UrlPic   -> <<"y","-","p",".","p","n","g">>
      [] url = UrlUpper -> <<"p",".","p","n","g">>
      [] url = UrlExe   -> <<"a",".","e","x","e">>
      [] url = UrlNoDot -> <<"b">>
      [] OTHER          -> <<>>

\* C13: whenever importFile calls the media store's upload, each of
\* fileInfo.name, fileInfo.alternativeText and fileInfo.caption is the value
\* the reference supplies when that is non-empty and otherwise the file name
\* derived from the url; the uploaded file's path is the temp file the same
\* fetch wrote.
C13_UploadDefaults ==
    \A c \in Calls :
        LET cr == calls[c]
            derived == DerivedName(cr.arg.url)
        IN  cr.pc = "upload" =>
              /\ derived # <<>>
              /\ cr.fileInfo.name =
                    IF cr.arg.name # <<>> THEN cr.arg.name ELSE derived
              /\ cr.fileInfo.alternativeText =
                    IF cr.arg.alternativeText # <<>> THEN cr.arg.alternativeText ELSE derived
              /\ cr.fileInfo.caption =
                    IF cr.arg.caption # <<>> THEN cr.arg.caption ELSE derived
              /\ Done(cr, "writeFileSync")
              /\ cr.path \in tmpFiles
              /\ cr.path.dir \in tmpDirs /\ cr.path.dir = nextDir - 1
              /\ cr.path.name = derived

\* upload is being called for a reference that supplies a name and a caption
\* and no alternative text.
C13_Witness ==
    \E c \in Calls :
        /\ calls[c].pc = "upload"
        /\ calls[c].arg.name = <<"c">>
        /\ calls[c].arg.alternativeText = <<>>
        /\ calls[c].arg.caption = <<"d">>
        /\ calls[c].fileInfo.alternativeText = <<"y","-","p",".","p","n","g">>

\* C14: findOrImportFile of a url string performs the same validation,
\* lookup, fetch and upload and returns the same result as findOrImportFile
\* of the descriptor {url: s}: the validation is that of s, and a string
\* url that is accepted is looked up by hash and, when the call returns,
\* has yielded a stored or an uploaded file, not null.
C14_StringAsDescriptor ==
    \A c \in Calls :
        LET cr == calls[c]
            ofDescriptor == isValidFileUrl(cr.arg.url, cr.allowed)
        IN  cr.arg.kind = "string" /\ Done(cr, "isValidFileUrl") =>
              /\ cr.check = ofDescriptor
              /\ cr.pc = "returned" /\ ofDescriptor.isValid =>
                    Done(cr, "findFile:hash") /\ cr.result # {}

\* A bare id, or a descriptor without url.
ReadOnlyRef(arg) == arg.kind = "number" \/ (arg.kind = "object" /\ arg.url = <<>>)

\* C15: resolving a bare id or a descriptor that has no url never issues a
\* request, never creates a temp directory or file and never calls upload,
\* and leaves the set of stored files as it was, whatever the lookup finds:
\* no step taken while such a call is in flight changes the store or the
\* temp directories and files, and the call's trace has none of these events.
C15_ReadOnlyResolution ==
    [][\A c \in Calls :
          InFlight(c) /\ ReadOnlyRef(calls[c].arg) =>
              /\ store' = store
              /\ nextId' = nextId
              /\ tmpDirs' = tmpDirs /\ nextDir' = nextDir
              /\ tmpFiles' = tmpFiles
              /\ \A e \in {"request", "mkdtemp", "mkdtemp:failed", "writeFileSync",
                            "writeFileSync:failed", "upload", "upload:failed"} :
                     ~Done(calls'[c], e)]_vars

\* A bare id and a name-only descriptor have been resolved, one to a stored
\* file and one to null.
C15_Witness ==
    \E c \in Calls :
        /\ calls[c].pc = "returned"
        /\ \/ calls[c].arg.kind = "number" /\ calls[c].result # {}
           \/ /\ calls[c].arg.kind = "object" /\ calls[c].arg.id = 0
              /\ calls[c].arg.url = <<>> /\ calls[c].arg.name # <<>>
              /\ calls[c].result = {}
              /\ Done(calls[c], "findFile:name")

\* C16: every temp directory writeFile created is removed by the time the
\* importFile call that caused it returns or throws: while no call is in
\* flight, no such directory is left.
C16_TempDirCleanup ==
    (\A c \in Calls : ~InFlight(c)) => tmpDirs = {}

====
